---- MODULE Spec2Model ----
(***************************************************************************)
(* Model of spots/management/commands/seed.py: the "seed" management       *)
(* command that queries the places search API page by page, normalises     *)
(* every returned place and writes it to the Spot table with               *)
(* get_or_create(name=...).                                                *)
(*                                                                         *)
(* Text is modelled as a sequence of one-character strings, so that        *)
(* slicing and len() are the sequence operations.  A JSON / Python value   *)
(* is a tagged record: [t |-> "null"], [t |-> "str", s |-> chars],         *)
(* [t |-> "num", repr |-> chars] (repr is what str() gives),               *)
(* [t |-> "dec", lit |-> chars] (a Decimal), [t |-> "list", items |-> seq].*)
(* A JSON object is a record tagged t |-> "dict" with every key the code   *)
(* reads; an absent key holds JNull, which is what dict.get returns.       *)
(***************************************************************************)
EXTENDS Integers, Sequences, FiniteSets, TLC

\* ------------------------------------------------------------------ bounds
MaxPages == 2
MaxRuns == 2
MaxComps == 2
MaxResultsFlow == 1
MaxResultsFields == 2

\* ------------------------------------------------------- program constants
NAME_LIMIT == 1000
ADDRESS_LIMIT == 255
CITY_LIMIT == 100
PHONE_LIMIT == 20
URL_LIMIT == 500
PLACE_ID_LIMIT == 255
PHOTO_URL_LIMIT == 500
SLEEP_SECONDS == 2
HTTP_OK == 200

\* ------------------------------------------------------------------ values
JNull == [t |-> "null"]
JStr(s) == [t |-> "str", s |-> s]
JNum(r) == [t |-> "num", repr |-> r]
JList(xs) == [t |-> "list", items |-> xs]
Dec(s) == [t |-> "dec", lit |-> s]

Rep(c, n) == [k \in 1..n |-> c]

Digits == {"0", "1", "2", "3", "4", "5", "6", "7", "8", "9"}

\* Python truthiness of a value: None, "", 0 and [] are false.
Truthy(v) ==
  CASE v.t = "null" -> FALSE
    [] v.t = "str"  -> v.s # <<>>
    [] v.t = "num"  -> \E k \in 1..Len(v.repr) : v.repr[k] \in (Digits \ {"0"})
    [] v.t = "list" -> v.items # <<>>
    [] v.t = "dict" -> TRUE   \* only ever used as "d or {}": same lookups
    [] OTHER        -> TRUE

\* a or b
Or(a, b) == IF Truthy(a) THEN a ELSE b

\* str(v) for the values a field can hold
PyStr(v) ==
  CASE v.t = "str" -> v.s
    [] v.t = "num" -> v.repr
    [] OTHER       -> <<"N", "o", "n", "e">>

PLACES_PHOTO_PREFIX ==
  <<"h","t","t","p","s",":","/","/","p","l","a","c","e","s",".","g","o","o","g","l","e","a","p","i","s",".","c","o","m","/","v","1","/">>

PLACES_PHOTO_SUFFIX ==
  <<"/","m","e","d","i","a","?","m","a","x","H","e","i","g","h","t","P","x","=","8","0","0","&","k","e","y","=">>

\* PHOTO_MEDIA_URL_TMPL.format(photo_name=..., api_key=...)
PHOTO_MEDIA_URL_TMPL(photo_name, api_key) ==
  PLACES_PHOTO_PREFIX \o photo_name \o PLACES_PHOTO_SUFFIX \o api_key

\* ------------------------------------------------------------- to_decimal
SpecialLiterals ==
  { <<"N","a","N">>, <<"n","a","n">>, <<"i","n","f">>,
    <<"I","n","f","i","n","i","t","y">> }

\* The numeric strings Decimal() accepts: [sign] digits [. digits] or
\* [sign] . digits, and the special literals (exponents are not modelled).
IsDecimalLiteral(s) ==
  LET body == IF s # <<>> /\ s[1] \in {"+", "-"} THEN Tail(s) ELSE s
      dots == {k \in 1..Len(body) : body[k] = "."}
  IN  \/ body \in SpecialLiterals
      \/ /\ body # <<>>
         /\ \A k \in 1..Len(body) : body[k] \in Digits \cup {"."}
         /\ Cardinality(dots) <= 1
         /\ \E k \in 1..Len(body) : body[k] \in Digits

to_decimal_unchecked(val) ==
  IF val.t # "null" THEN Dec(PyStr(val)) ELSE JNull

to_decimal(val) ==
  IF val.t # "null"
    THEN IF IsDecimalLiteral(PyStr(val)) THEN Dec(PyStr(val)) ELSE JNull
    ELSE JNull

\* ------------------------------------------------------------------- trim
trim_off_by_one(s, limit) ==
  IF ~Truthy(s) THEN JNull
  ELSE LET str == PyStr(s)
       IN  JStr(IF Len(str) > limit THEN SubSeq(str, 1, limit + 1) ELSE str)

trim(s, limit) ==
  IF ~Truthy(s) THEN JNull
  ELSE LET str == PyStr(s)
       IN  JStr(IF Len(str) > limit THEN SubSeq(str, 1, limit) ELSE str)

\* -------------------------------------------------------------- pick_city
InList(x, xs) == \E k \in 1..Len(xs) : xs[k] = x

\* comp.get("longText") or comp.get("shortText")
CompName(comp) == Or(comp.longText, comp.shortText)

\* one "for comp in address_components" loop: the name of the first component
\* whose types hold ty and whose name is truthy, None when the loop runs out
RECURSIVE ScanFor(_, _)
ScanFor(comps, ty) ==
  IF comps = <<>> THEN JNull
  ELSE IF InList(ty, Head(comps).types) /\ Truthy(CompName(Head(comps)))
         THEN CompName(Head(comps))
         ELSE ScanFor(Tail(comps), ty)

\* a single combined loop returning on the first locality or area component
RECURSIVE ScanEither(_)
ScanEither(comps) ==
  IF comps = <<>> THEN JNull
  ELSE IF /\ \/ InList("locality", Head(comps).types)
             \/ InList("administrative_area_level_1", Head(comps).types)
          /\ Truthy(CompName(Head(comps)))
         THEN CompName(Head(comps))
         ELSE ScanEither(Tail(comps))

pick_city_single_pass(address_components) ==
  IF ~Truthy(address_components) THEN JNull
  ELSE ScanEither(address_components.items)

pick_city(address_components) ==
  IF ~Truthy(address_components) THEN JNull
  ELSE LET loc == ScanFor(address_components.items, "locality")
       IN  IF loc.t # "null" THEN loc
           ELSE ScanFor(address_components.items, "administrative_area_level_1")

\* ------------------------------------------------- normalising one place
\* d.get(key) on "(p.get(...) or {})": an absent object has no keys
GetText(d) == IF d.t = "dict" THEN d.text ELSE JNull
GetLatitude(d) == IF d.t = "dict" THEN d.latitude ELSE JNull
GetLongitude(d) == IF d.t = "dict" THEN d.longitude ELSE JNull
GetWeekdays(d) == IF d.t = "dict" THEN d.weekdayDescriptions ELSE JNull

\* name = (p.get("displayName") or {}).get("text") or ""
DisplayName(p) == Or(GetText(p.displayName), JStr(<<>>))

TruncNameKeepAll(name) == name

\* if len(name) > 1000: name = name[:1000]
TruncName(name) ==
  IF Len(name) > NAME_LIMIT THEN SubSeq(name, 1, NAME_LIMIT) ELSE name

\* the first photo's media URL, None without a photo or a photo name
PhotoUrl(p, api_key) ==
  IF ~Truthy(p.photos) THEN JNull
  ELSE LET photo_name == p.photos.items[1].name
       IN  IF ~Truthy(photo_name) THEN JNull
           ELSE trim(JStr(PHOTO_MEDIA_URL_TMPL(PyStr(photo_name), api_key)),
                     PHOTO_URL_LIMIT)

\* the keyword arguments of Spot.objects.get_or_create for place p
SpotFields(p, api_key) ==
  [ name          |-> TruncName(DisplayName(p).s),
    address       |-> trim(Or(Or(p.formattedAddress, p.shortFormattedAddress), JNull),
                           ADDRESS_LIMIT),
    city          |-> trim(Or(pick_city(p.addressComponents), JNull), CITY_LIMIT),
    latitude      |-> to_decimal(GetLatitude(p.location)),
    longitude     |-> to_decimal(GetLongitude(p.location)),
    phone         |-> trim(p.nationalPhoneNumber, PHONE_LIMIT),
    url           |-> trim(p.websiteUri, URL_LIMIT),
    rating        |-> p.rating,
    place_id      |-> trim(p.id, PLACE_ID_LIMIT),
    opening_hours |-> IF Truthy(GetWeekdays(p.currentOpeningHours))
                        THEN GetWeekdays(p.currentOpeningHours) ELSE JNull,
    description   |-> JNull,
    photo_url     |-> PhotoUrl(p, api_key) ]

\* Spot.objects.get_or_create(name=..., defaults=...): the table afterwards
UpdateOrCreate(table, fields) ==
  {r \in table : r.name # fields.name} \cup {fields}

GetOrCreate(table, fields) ==
  IF \E r \in table : r.name = fields.name THEN table ELSE table \cup {fields}

\* created, the second component of get_or_create's result
Created(table, fields) == ~ \E r \in table : r.name = fields.name

\* ------------------------------------------------------------ sample data
Dict(text) == [t |-> "dict", text |-> text]
Location(lat, lng) == [t |-> "dict", latitude |-> lat, longitude |-> lng]
Hours(days) == [t |-> "dict", weekdayDescriptions |-> days]
Photo(name) == [t |-> "dict", name |-> name]
Comp(types, long, short) ==
  [t |-> "dict", types |-> types, longText |-> long, shortText |-> short]

\* a place with none of the masked fields present
BasePlace ==
  [ id |-> JNull, displayName |-> JNull, formattedAddress |-> JNull,
    shortFormattedAddress |-> JNull, location |-> JNull, rating |-> JNull,
    websiteUri |-> JNull, nationalPhoneNumber |-> JNull,
    currentOpeningHours |-> JNull, addressComponents |-> JNull,
    photos |-> JNull ]

NotANumber == <<"n","o","t","-","a","-","n","u","m","b","e","r">>

PlainPlace ==
  [ BasePlace EXCEPT
      !.id = JStr(<<"i", "d", "1">>),
      !.displayName = Dict(JStr(<<"s", "1">>)),
      !.formattedAddress = JStr(<<"f", "u", "l", "l">>),
      !.shortFormattedAddress = JStr(<<"s", "h">>),
      !.location = Location(JNum(<<"2","5",".","0","3","3">>),
                            JNum(<<"1","2","1",".","5","6","5","4">>)),
      !.rating = JNum(<<"4", ".", "5">>),
      !.websiteUri = JStr(<<"w">>),
      !.nationalPhoneNumber = JStr(<<"0", "2">>),
      !.currentOpeningHours = Hours(JList(<<JStr(<<"M", "o", "n">>)>>)),
      !.addressComponents =
         JList(<< Comp(<<"administrative_area_level_1">>, JStr(<<"A">>), JNull),
                  Comp(<<"locality", "political">>, JNull, JStr(<<"L">>)) >>),
      !.photos = JList(<<Photo(JStr(<<"p", "h">>))>>) ]

\* every text field over its limit; the latitude is not a number
LongPlace ==
  [ BasePlace EXCEPT
      !.id = JStr(Rep("i", 300)),
      !.displayName = Dict(JStr(Rep("n", 1200))),
      !.formattedAddress = JStr(Rep("a", 300)),
      !.location = Location(JStr(NotANumber), JStr(<<"-", "1", ".", "5">>)),
      !.websiteUri = JStr(Rep("w", 600)),
      !.nationalPhoneNumber = JStr(Rep("7", 30)),
      !.addressComponents =
         JList(<< Comp(<<"locality">>, JStr(Rep("c", 150)), JNull) >>),
      !.photos = JList(<<Photo(JStr(Rep("p", 600))), Photo(JStr(<<"q">>))>>) ]

\* differs from LongPlace's name only past the name limit
LongPlace2 ==
  [ BasePlace EXCEPT
      !.id = JStr(<<"i", "d", "2">>),
      !.displayName = Dict(JStr(Rep("n", 1000) \o Rep("z", 200))),
      !.shortFormattedAddress = JStr(<<"s", "h", "2">>),
      !.location = Location(JNull, JNum(<<"1", "2", "1">>)) ]

\* every text field exactly at its limit; a numeric phone; empty optionals
EdgePlace ==
  [ BasePlace EXCEPT
      !.id = JStr(Rep("i", 255)),
      !.displayName = Dict(JStr(<<"s", "2">>)),
      !.formattedAddress = JStr(<<>>),
      !.shortFormattedAddress = JStr(Rep("a", 255)),
      !.location = Location(JNum(<<"2", "4">>), JStr(<<"n", "a", "n">>)),
      !.websiteUri = JStr(Rep("w", 500)),
      !.nationalPhoneNumber = JNum(Rep("9", 21)),
      !.currentOpeningHours = Hours(JList(<<>>)),
      !.addressComponents =
         JList(<< Comp(<<"locality">>, JStr(<<>>), JNull),
                  Comp(<<"administrative_area_level_1">>, JStr(Rep("c", 100)), JNull) >>),
      !.photos = JList(<<Photo(JNull)>>) ]

NamelessPlace ==
  [ BasePlace EXCEPT
      !.id = JStr(<<"i", "d", "3">>),
      !.formattedAddress = JStr(<<"f", "3">>) ]

EmptyNamePlace ==
  [ BasePlace EXCEPT
      !.id = JStr(<<"i", "d", "4">>),
      !.displayName = Dict(JStr(<<>>)) ]

NullTextPlace ==
  [ BasePlace EXCEPT !.displayName = Dict(JNull) ]

\* rows that may be in the table before the command runs
BlankSpot(name) ==
  [ name |-> name, address |-> JNull, city |-> JNull, latitude |-> JNull,
    longitude |-> JNull, phone |-> JNull, url |-> JNull, rating |-> JNull,
    place_id |-> JNull, opening_hours |-> JNull, description |-> JNull,
    photo_url |-> JNull ]

OldPlainSpot ==
  [ BlankSpot(<<"s", "1">>) EXCEPT
      !.address = JStr(<<"o", "l", "d">>),
      !.description = JStr(<<"k", "e", "p", "t">>) ]

OldLongSpot == [ BlankSpot(Rep("n", 1000)) EXCEPT !.phone = JStr(<<"1">>) ]

FlowCatalog == {PlainPlace, NullTextPlace}
FieldCatalog ==
  {PlainPlace, LongPlace, LongPlace2, EdgePlace, NamelessPlace, EmptyNamePlace}

ApiKey == <<"K">>

\* the continuation token the API hands out with its k-th page: "t1", "t2", ...
PageToken(k) == JStr(<<"t", <<"1", "2", "3", "4", "5", "6", "7", "8", "9">>[k]>>)

\* ------------------------------------------------------------------ state
VARIABLES
  env_key,          \* os.getenv("GOOGLE_API_KEY"): JNull when unset
  opts_pages,       \* opts["pages"]
  upstream,         \* which data set the search API serves: "flow" or "fields"
  storage,          \* the Spot table: a set of rows
  pc,               \* position of the command
  run,              \* number of the current invocation of the command
  iter,             \* iterations of the page loop started in this run
  next_page_token,  \* the local next_page_token
  body_token,       \* body["pageToken"], JNull while the key is not set
  resp,             \* the response of the last requests.post
  places,           \* the list the "for p in places" loop walks
  idx,              \* position of that loop
  saved,            \* the created counter
  skipped,          \* the skip counter
  calls,            \* pageToken carried by every search call of this run
  log,              \* response received by every search call of this run
  sleeps,           \* every time.sleep of this run: after which call, how long
  stderr,           \* error lines written in this run
  stdout,           \* progress lines written in this run
  served,           \* responses the API gave in the first run, replayed later
  storage0,         \* the table when this run started
  atPost,           \* the table and the created counter at the last search call
  last,             \* the place handled by the last step of the place loop
  city_in,          \* argument of the pick_city call under test
  city_out          \* its result

vars ==
  << env_key, opts_pages, upstream, storage, pc, run, iter, next_page_token,
     body_token, resp, places, idx, saved, skipped, calls, log, sleeps, stderr,
     stdout, served, storage0, atPost, last, city_in, city_out >>

Catalog == IF upstream = "flow" THEN FlowCatalog ELSE FieldCatalog
MaxResults == IF upstream = "flow" THEN MaxResultsFlow ELSE MaxResultsFields

\* "nextPageToken" of the k-th page: absent, empty, or that page's token
Tokens(k) == {JNull, JStr(<<>>), PageToken(k)}

SeqsUpTo(S, n) == UNION {[1..k -> S] : k \in 0..n}

\* what the search API may answer to the k-th call of a run: a failure, or a
\* page with an optional "places" array and an optional "nextPageToken"
Responses(k) ==
  { [status |-> 500, places |-> JNull, nextPageToken |-> JNull] } \cup
  { [status |-> HTTP_OK, places |-> ps, nextPageToken |-> tk] :
      ps \in {JNull} \cup {JList(xs) : xs \in SeqsUpTo(Catalog, MaxResults)},
      tk \in Tokens(k) }

NoResp == [status |-> 0, places |-> JNull, nextPageToken |-> JNull]
NoLast == [kind |-> "none"]

CompSet ==
  { Comp(ty, lg, sh) :
      ty \in { <<>>, <<"locality">>, <<"administrative_area_level_1">>,
               <<"political", "locality">>,
               <<"administrative_area_level_1", "locality">> },
      lg \in {JNull, JStr(<<>>), JStr(<<"A">>), JStr(<<"B">>)},
      sh \in {JNull, JStr(<<"C">>)} }

Idle ==
  /\ run = 1 /\ iter = 0 /\ next_page_token = JNull /\ body_token = JNull
  /\ resp = NoResp /\ places = <<>> /\ idx = 1 /\ saved = 0 /\ skipped = 0
  /\ calls = <<>> /\ log = <<>> /\ sleeps = <<>> /\ stderr = <<>>
  /\ stdout = <<>> /\ served = <<>> /\ storage0 = storage
  /\ atPost = [storage |-> storage, saved |-> 0] /\ last = NoLast

InitFlow ==
  /\ upstream = "flow"
  /\ env_key \in {JNull, JStr(<<>>), JStr(ApiKey)}
  /\ opts_pages \in -1..MaxPages
  /\ storage \in {{}, {OldPlainSpot}}
  /\ pc = "start" /\ city_in = JNull /\ city_out = JNull
  /\ Idle

InitFields ==
  /\ upstream = "fields"
  /\ env_key = JStr(ApiKey)
  /\ opts_pages = 1
  /\ storage \in {{}, {OldPlainSpot, OldLongSpot}}
  /\ pc = "start" /\ city_in = JNull /\ city_out = JNull
  /\ Idle

InitCity ==
  /\ upstream = "flow" /\ env_key = JNull /\ opts_pages = 1 /\ storage = {}
  /\ pc = "city_call"
  /\ city_in \in {JNull} \cup {JList(xs) : xs \in SeqsUpTo(CompSet, MaxComps)}
  /\ city_out = JNull
  /\ Idle

Init == InitFlow \/ InitFields \/ InitCity

\* ---------------------------------------------------------------- actions
RunVars == << env_key, opts_pages, upstream, run, served, storage0 >>
CityVars == << city_in, city_out >>

\* "if not api_key": the credential is usable
HasKeyIfSet(key) == key.t # "null"

HasKey(key) == Truthy(key)

\* range(max(1, opts["pages"]))
BudgetRaw(pages) == pages

Budget(pages) == IF pages > 1 THEN pages ELSE 1

\* api_key missing: report and return
MissingKey ==
  /\ pc = "start"
  /\ ~HasKey(env_key)
  /\ stderr' = Append(stderr, "config")
  /\ pc' = "done"
  /\ UNCHANGED << RunVars, CityVars, storage, iter, next_page_token, body_token,
                  resp, places, idx, saved, skipped, calls, log, sleeps, stdout,
                  atPost, last >>

\* api_key present: headers and body built, counters and token initialised
Begin ==
  /\ pc = "start"
  /\ HasKey(env_key)
  /\ saved' = 0
  /\ skipped' = 0
  /\ next_page_token' = JNull
  /\ body_token' = JNull
  /\ pc' = "loop"
  /\ UNCHANGED << RunVars, CityVars, storage, iter, resp, places, idx, calls, log,
                  sleeps, stderr, stdout, atPost, last >>

\* one more iteration: set body["pageToken"] if there is a token, then post
Post ==
  /\ pc = "loop"
  /\ iter < Budget(opts_pages)
  /\ iter' = iter + 1
  /\ body_token' = IF Truthy(next_page_token) THEN next_page_token ELSE body_token
  /\ calls' = Append(calls, body_token')
  /\ IF run = 1
       THEN /\ resp' \in Responses(iter + 1)
            /\ served' = Append(served, resp')
       ELSE /\ resp' = served[iter + 1]
            /\ served' = served
  /\ log' = Append(log, resp')
  /\ atPost' = [storage |-> storage, saved |-> saved]
  /\ pc' = "status"
  /\ UNCHANGED << env_key, opts_pages, upstream, run, storage0, CityVars, storage,
                  next_page_token, places, idx, saved, skipped, sleeps, stderr,
                  stdout, last >>

\* the range is exhausted: the for loop ends
LoopExhausted ==
  /\ pc = "loop"
  /\ iter >= Budget(opts_pages)
  /\ pc' = "finish"
  /\ UNCHANGED << RunVars, CityVars, storage, iter, next_page_token, body_token,
                  resp, places, idx, saved, skipped, calls, log, sleeps, stderr,
                  stdout, atPost, last >>

ApiErrorRetry ==
  /\ pc = "status"
  /\ resp.status # HTTP_OK
  /\ stderr' = Append(stderr, "api")
  /\ pc' = "loop"
  /\ UNCHANGED << RunVars, CityVars, storage, iter, next_page_token, body_token,
                  resp, places, idx, saved, skipped, calls, log, sleeps, stdout,
                  atPost, last >>

\* resp.status_code != 200: report and break
ApiError ==
  /\ pc = "status"
  /\ resp.status # HTTP_OK
  /\ stderr' = Append(stderr, "api")
  /\ pc' = "finish"
  /\ UNCHANGED << RunVars, CityVars, storage, iter, next_page_token, body_token,
                  resp, places, idx, saved, skipped, calls, log, sleeps, stdout,
                  atPost, last >>

\* payload = resp.json(); places = payload.get("places", []) or []
ReadPayload ==
  /\ pc = "status"
  /\ resp.status = HTTP_OK
  /\ places' = Or(resp.places, JList(<<>>)).items
  /\ idx' = 1
  /\ stdout' = Append(stdout, <<"page", Len(places')>>)
  /\ pc' = "places"
  /\ UNCHANGED << RunVars, CityVars, storage, iter, next_page_token, body_token,
                  resp, saved, skipped, calls, log, sleeps, stderr, atPost, last >>

\* a place without a display name: count it and continue
SkipPlace ==
  /\ pc = "places"
  /\ idx <= Len(places)
  /\ ~Truthy(DisplayName(places[idx]))
  /\ skipped' = skipped + 1
  /\ idx' = idx + 1
  /\ last' = [kind |-> "skip", place |-> places[idx]]
  /\ UNCHANGED << RunVars, CityVars, storage, pc, iter, next_page_token,
                  body_token, resp, places, saved, calls, log, sleeps, stderr,
                  stdout, atPost >>

SavePlaceCountingDuplicates ==
  /\ pc = "places"
  /\ idx <= Len(places)
  /\ Truthy(DisplayName(places[idx]))
  /\ LET fields == SpotFields(places[idx], env_key.s)
         created == Created(storage, fields)
     IN  /\ storage' = GetOrCreate(storage, fields)
         /\ saved' = IF created THEN saved + 1 ELSE saved
         /\ skipped' = IF created THEN skipped ELSE skipped + 1
         /\ last' = [kind |-> "save", place |-> places[idx], fields |-> fields,
                     created |-> created]
  /\ idx' = idx + 1
  /\ UNCHANGED << RunVars, CityVars, pc, iter, next_page_token, body_token, resp,
                  places, calls, log, sleeps, stderr, stdout, atPost >>

\* a named place: normalise its fields, get_or_create, count a creation
SavePlace ==
  /\ pc = "places"
  /\ idx <= Len(places)
  /\ Truthy(DisplayName(places[idx]))
  /\ LET fields == SpotFields(places[idx], env_key.s)
         created == Created(storage, fields)
     IN  /\ storage' = GetOrCreate(storage, fields)
         /\ saved' = IF created THEN saved + 1 ELSE saved
         /\ last' = [kind |-> "save", place |-> places[idx], fields |-> fields,
                     created |-> created]
  /\ idx' = idx + 1
  /\ UNCHANGED << RunVars, CityVars, pc, iter, next_page_token, body_token, resp,
                  places, skipped, calls, log, sleeps, stderr, stdout, atPost >>

\* end of the page without a continuation token: break
EndPageNoToken ==
  /\ pc = "places"
  /\ idx > Len(places)
  /\ next_page_token' = resp.nextPageToken
  /\ ~Truthy(next_page_token')
  /\ pc' = "finish"
  /\ UNCHANGED << RunVars, CityVars, storage, iter, body_token, resp, places, idx,
                  saved, skipped, calls, log, sleeps, stderr, stdout, atPost, last >>

\* end of the page with a continuation token: time.sleep(2), next iteration
EndPageSleep ==
  /\ pc = "places"
  /\ idx > Len(places)
  /\ next_page_token' = resp.nextPageToken
  /\ Truthy(next_page_token')
  /\ sleeps' = Append(sleeps, [after |-> iter, seconds |-> SLEEP_SECONDS])
  /\ pc' = "loop"
  /\ UNCHANGED << RunVars, CityVars, storage, iter, body_token, resp, places, idx,
                  saved, skipped, calls, log, stderr, stdout, atPost, last >>

\* the summary line after the loop
Finish ==
  /\ pc = "finish"
  /\ stdout' = Append(stdout, <<"done", saved, skipped>>)
  /\ pc' = "done"
  /\ UNCHANGED << RunVars, CityVars, storage, iter, next_page_token, body_token,
                  resp, places, idx, saved, skipped, calls, log, sleeps, stderr,
                  atPost, last >>

\* the command is invoked again, with the same environment and options,
\* against an API that answers as it did the first time
Rerun ==
  /\ pc = "done"
  /\ run < MaxRuns
  /\ run' = run + 1
  /\ storage0' = storage
  /\ iter' = 0 /\ next_page_token' = JNull /\ body_token' = JNull
  /\ resp' = NoResp /\ places' = <<>> /\ idx' = 1 /\ saved' = 0 /\ skipped' = 0
  /\ calls' = <<>> /\ log' = <<>> /\ sleeps' = <<>> /\ stderr' = <<>>
  /\ stdout' = <<>> /\ last' = NoLast
  /\ atPost' = [storage |-> storage, saved |-> 0]
  /\ pc' = "start"
  /\ UNCHANGED << env_key, opts_pages, upstream, served, CityVars, storage >>

\* a call of pick_city on its own
PickCity ==
  /\ pc = "city_call"
  /\ city_out' = pick_city(city_in)
  /\ pc' = "city_done"
  /\ UNCHANGED << RunVars, city_in, storage, iter, next_page_token, body_token,
                  resp, places, idx, saved, skipped, calls, log, sleeps, stderr,
                  stdout, atPost, last >>

Next ==
  \/ MissingKey \/ Begin \/ Post \/ LoopExhausted \/ ApiError \/ ReadPayload
  \/ SkipPlace \/ SavePlace \/ EndPageNoToken \/ EndPageSleep \/ Finish
  \/ Rerun \/ PickCity

Spec == Init /\ [][Next]_vars

\* ------------------------------------------------------------- properties
Prefix(str, n) == [k \in 1..(IF Len(str) < n THEN Len(str) ELSE n) |-> str[k]]
MaxOf(a, b) == IF a >= b THEN a ELSE b

\* the display name of a place as the API gave it, <<>> when there is none
GivenName(p) ==
  IF p.displayName = JNull THEN <<>>
  ELSE IF p.displayName.text = JNull THEN <<>> ELSE p.displayName.text.s

\* the place the place loop is about to handle
AtPlace == pc = "places" /\ idx <= Len(places)

\* the places of every page received in this run
PlacesSeen ==
  UNION { {log[k].places.items[m] : m \in 1..Len(log[k].places.items)} :
            k \in {n \in 1..Len(log) : log[n].status = 200 /\ log[n].places # JNull} }

\* C1: a place whose truncated name is already the name of a row leaves the
\* table and the created counter as they are, and a second run over the same
\* responses creates nothing, reports zero and leaves the table identical.
C1_InsertIfAbsent ==
  /\ [][ (AtPlace /\ GivenName(places[idx]) # <<>>
            /\ \E r \in storage : r.name = Prefix(GivenName(places[idx]), 1000))
         => (storage' = storage /\ saved' = saved) ]_vars
  /\ [](\A r1, r2 \in storage : r1.name = r2.name => r1 = r2)
  /\ [](run >= 2 => /\ saved = 0
                    /\ storage = storage0
                    /\ (pc = "done" /\ env_key = JStr(ApiKey)
                          => stdout[Len(stdout)] = <<"done", 0, skipped>>))

C1_Witness ==
  /\ run = 2 /\ pc = "done" /\ last.kind = "save" /\ ~last.created
  /\ Len(GivenName(last.place)) > 1000
  /\ OldLongSpot \in storage

\* C2 as amended: after the run, for every place a page of this run returned
\* with a non-empty display name, the table holds a row whose name is the
\* first 1000 characters of that display name.
C2_NamedPlacesStoredTruncated ==
  pc = "done" =>
    \A p \in PlacesSeen :
      GivenName(p) # <<>> => \E r \in storage : r.name = Prefix(GivenName(p), 1000)

\* C2 as stated: after the run, for every place a page of this run returned with
\* a non-empty display name, the table holds a row with exactly that name.
C2_NamedPlacesStoredVerbatim ==
  pc = "done" =>
    \A p \in PlacesSeen :
      GivenName(p) # <<>> => \E r \in storage : r.name = GivenName(p)

C2_Witness ==
  /\ pc = "done" /\ run = 1
  /\ \E p \in PlacesSeen : Len(GivenName(p)) > 1000
  /\ \E p \in PlacesSeen : GivenName(p) # <<>> /\ Len(GivenName(p)) <= 1000
  /\ storage0 = {}

\* C3: with the credential unset or empty the run reports a configuration
\* error and ends with no search call made, no row created and the table
\* untouched.
C3_MissingKeyAborts ==
  (env_key = JNull \/ env_key = JStr(<<>>)) =>
    /\ calls = <<>> /\ log = <<>>
    /\ saved = 0
    /\ storage = storage0
    /\ pc \in {"start", "done", "city_call", "city_done"}
    /\ (pc = "done" => stderr = <<"config">>)

C3_Witness ==
  /\ pc = "done" /\ env_key = JStr(<<>>) /\ stderr = <<"config">>
  /\ storage # {} /\ opts_pages = MaxPages

\* C4: once a search call has failed, the error is reported, the failed call
\* is the last call of the run, the table and the created counter are what
\* they were when that call was made, and a failure of the first call leaves
\* zero created rows.
C4_FailureIsTerminal ==
  /\ \A k \in 1..(Len(log) - 1) : log[k].status = 200
  /\ ((log # <<>> /\ log[Len(log)].status # 200 /\ pc # "status")
        => /\ stderr = <<"api">>
           /\ pc \in {"finish", "done"}
           /\ Len(calls) = Len(log)
           /\ storage = atPost.storage
           /\ saved = atPost.saved
           /\ (Len(log) = 1 => saved = 0 /\ storage = storage0))
  /\ storage0 \subseteq storage

C4_Witness ==
  /\ pc = "done" /\ stderr = <<"api">> /\ Len(calls) = 2 /\ saved = 1
  /\ opts_pages = 2 /\ storage # storage0 /\ sleeps # <<>>

\* C5: the first search call carries no token; a later call follows a 200
\* response that carried a token, within the budget max(1, pages), and
\* carries exactly that token; a budget of 1 or less gives exactly one call,
\* a budget of 2 and a token in the first response give a second call.
C5_PaginationFollowsTokenAndBudget ==
  /\ Len(calls) = Len(log)
  /\ Len(calls) <= MaxOf(1, opts_pages)
  /\ (calls # <<>> => calls[1] = JNull)
  /\ \A k \in 2..Len(calls) :
       /\ log[k - 1].status = 200
       /\ log[k - 1].nextPageToken \notin {JNull, JStr(<<>>)}
       /\ calls[k] = log[k - 1].nextPageToken
  /\ ((pc = "done" /\ env_key = JStr(ApiKey) /\ opts_pages <= 1)
        => Len(calls) = 1)
  /\ ((pc = "done" /\ opts_pages = 2 /\ log # <<>> /\ log[1].status = 200
         /\ log[1].nextPageToken \notin {JNull, JStr(<<>>)})
        => Len(calls) = 2 /\ calls[2] = log[1].nextPageToken)

C5_Witness ==
  /\ pc = "done" /\ opts_pages = 2 /\ Len(calls) = 2
  /\ calls[1] = JNull /\ calls[2] = PageToken(1)
  /\ log[2].status = 200 /\ log[2].nextPageToken = PageToken(2)

\* C6: a place without a display name adds exactly one to the skip counter,
\* leaves the table and the created counter alone and the loop moves on to
\* the next place; nothing else adds to the skip counter.
C6_SkipOnlyNameless ==
  [][ /\ (AtPlace /\ GivenName(places[idx]) = <<>>)
        => /\ skipped' = skipped + 1
           /\ storage' = storage /\ saved' = saved
           /\ pc' = "places" /\ idx' = idx + 1 /\ places' = places
      /\ (skipped' # skipped)
        => \/ AtPlace /\ GivenName(places[idx]) = <<>>
           \/ pc \in {"start", "done"} /\ skipped' = 0 ]_vars

C6_Witness ==
  /\ skipped = 1 /\ saved = 0 /\ last.kind = "save" /\ ~last.created
  /\ pc = "places" /\ stdout # <<>>

\* the text a value is written out as, and whether the value is there at all
Present(v) == v # JNull /\ v # JStr(<<>>)
TextOf(v) == IF v.t = "num" THEN v.repr ELSE v.s

\* v is absent, or text of at most n characters
Within(v, n) == v = JNull \/ (v.t = "str" /\ Len(v.s) <= n)

\* stored is the first min(length, n) characters of the source text
CutFrom(stored, source, n) ==
  Present(source) =>
    /\ stored.t = "str"
    /\ Len(stored.s) = (IF Len(TextOf(source)) < n THEN Len(TextOf(source)) ELSE n)
    /\ \A k \in 1..Len(stored.s) : stored.s[k] = TextOf(source)[k]

\* the address the API gave: the formatted one, else the short one
GivenAddress(p) ==
  IF Present(p.formattedAddress) THEN p.formattedAddress ELSE p.shortFormattedAddress

\* the media URL of the first photo, absent without a photo name
GivenPhotoUrl(p) ==
  IF p.photos = JNull \/ p.photos.items = <<>> THEN JNull
  ELSE IF ~Present(p.photos.items[1].name) THEN JNull
  ELSE JStr(PLACES_PHOTO_PREFIX \o p.photos.items[1].name.s
              \o PLACES_PHOTO_SUFFIX \o env_key.s)

\* C7: every row the command writes keeps name within 1000 characters, address
\* 255, city 100, phone 20, url 500, place_id 255 and photo_url 500, each
\* being the prefix of its source of length min(source length, limit).
C7_TruncationBounds ==
  /\ \A r \in storage :
       /\ Len(r.name) <= 1000
       /\ Within(r.address, 255) /\ Within(r.city, 100) /\ Within(r.phone, 20)
       /\ Within(r.url, 500) /\ Within(r.place_id, 255)
       /\ Within(r.photo_url, 500)
  /\ (last.kind = "save" =>
       LET p == last.place
           f == last.fields
       IN  /\ last.created => f \in storage
           /\ CutFrom(JStr(f.name), JStr(GivenName(p)), 1000)
           /\ CutFrom(f.address, GivenAddress(p), 255)
           /\ CutFrom(f.city, pick_city(p.addressComponents), 100)
           /\ CutFrom(f.phone, p.nationalPhoneNumber, 20)
           /\ CutFrom(f.url, p.websiteUri, 500)
           /\ CutFrom(f.place_id, p.id, 255)
           /\ CutFrom(f.photo_url, GivenPhotoUrl(p), 500))

C7_Witness ==
  /\ last.kind = "save" /\ last.created /\ last.fields \in storage
  /\ Len(GivenName(last.place)) = 1200 /\ Len(last.fields.name) = 1000
  /\ Len(last.place.formattedAddress.s) = 300 /\ Len(last.fields.address.s) = 255
  /\ Len(last.place.nationalPhoneNumber.s) = 30 /\ Len(last.fields.phone.s) = 20
  /\ Len(last.fields.photo_url.s) = 500

\* C8: every 2-unit delay follows a response that carried a continuation
\* token while more pages remained in the budget max(1, pages).
C8_DelayOnlyBeforeNextPage ==
  \A k \in 1..Len(sleeps) :
    /\ sleeps[k].seconds = 2
    /\ log[sleeps[k].after].nextPageToken \notin {JNull, JStr(<<>>)}
    /\ sleeps[k].after < MaxOf(1, opts_pages)

\* the city pick_city is to give for a component list, stated over positions
Preferred(comp) ==
  IF Present(comp.longText) THEN comp.longText ELSE comp.shortText

NamedOfType(comps, ty) ==
  { k \in 1..Len(comps) :
      /\ \E m \in 1..Len(comps[k].types) : comps[k].types[m] = ty
      /\ Present(Preferred(comps[k])) }

GivenCoordinate(p, axis) ==
  IF p.location = JNull THEN JNull
  ELSE IF axis = "lat" THEN p.location.latitude ELSE p.location.longitude

NoNumber(v) == v = JNull \/ v = JStr(NotANumber)

\* C10: for a named place whose latitude or longitude is missing or is
\* "not-a-number" the row gets no value for it, a number is kept, the row is
\* in the table with its other fields, and the loop goes on to the next place.
C10_CoercionNeverAborts ==
  (pc = "places" /\ idx > 1 /\ last.kind = "save") =>
    LET p == last.place
        f == last.fields
    IN  /\ NoNumber(GivenCoordinate(p, "lat")) => f.latitude = JNull
        /\ NoNumber(GivenCoordinate(p, "lng")) => f.longitude = JNull
        /\ GivenCoordinate(p, "lat").t = "num"
             => f.latitude = Dec(GivenCoordinate(p, "lat").repr)
        /\ GivenCoordinate(p, "lng").t = "num"
             => f.longitude = Dec(GivenCoordinate(p, "lng").repr)
        /\ \E r \in storage : r.name = f.name
        /\ last.created => f \in storage
        /\ idx <= Len(places) + 1 /\ places[idx - 1] = p
        /\ stderr = <<>>

C10_Witness ==
  /\ last.kind = "save" /\ last.created
  /\ GivenCoordinate(last.place, "lat") = JStr(NotANumber)
  /\ last.fields.latitude = JNull
  /\ last.fields.longitude = Dec(<<"-", "1", ".", "5">>)
  /\ last.fields.address # JNull
  /\ last.fields \in storage
  /\ pc = "places" /\ idx = 2 /\ Len(places) = 2

====
